---- MODULE Spec2Model ----
(***************************************************************************)
(* Model of the OpenGL tutorial programs of gjae/learningopengl that have  *)
(* a scene cursor driven by a GLFW key callback:                            *)
(*   "geometry"   src/PROJECT1/main.cpp      (figures rebuilt every frame)  *)
(*   "shader"     src/unnamed/part_000       (shaders set up once)          *)
(*   "background" src/unnamed/part_001:1-151 (background colour only)       *)
(* Each program is one thread: main() runs the render loop and the key      *)
(* callback runs synchronously inside glfwPollEvents().                     *)
(***************************************************************************)
EXTENDS Integers, Sequences, FiniteSets, TLC

\* ------------------------------------------------------------------ bounds
\* Total number of key events the windowing system delivers in one run.
MaxEvents == 5
\* Largest number of key events pending at one call of glfwPollEvents.
MaxPending == 2
\* Number of figure tables the geometry program may build (frames it starts).
MaxFrames == 2

\* ------------------------------------------------------- program constants
\* SCENE_BACKGROUND[3][4]: the RGBA clear colour of each scene, in
\* thousandths.  C arrays are 0-based: scene i is entry i + 1 here.
SCENE_BACKGROUND ==
    << <<200, 300, 300, 1000>>,
       <<1000, 643, 0, 1000>>,
       <<0, 1000, 655, 1000>> >>
\* Number of scenes: the size of SCENE_BACKGROUND and of the figure table.
NumScenes == Len(SCENE_BACKGROUND)
\* SceneRenderer is unsigned short: arithmetic is modulo 2^16.
UShortMod == 2 ^ 16
\* VertexArray is float[27]: the capacity of figureVertex, and the size of
\* the buffer glBufferData uploads (sizeof(figureVertex)).
VertexArrayLen == 27
\* Number of floats each figure's initialiser gives figureVertex in
\* getFiguresShapes of main.cpp (3, 6 and 9 vertices of 3 coordinates).
FigureFloats == <<9, 18, 27>>
\* FragColor written by each figure's fragmentShaderSource, in thousandths.
FragmentSources ==
    << <<1000, 500, 200, 1000>>,
       <<0, 0, 980, 1000>>,
       <<0, 0, 980, 1000>> >>
\* WIDTH x HEIGH, and another size the window may be given.
ViewportSizes == {<<800, 600>>, <<400, 300>>}

Variants == {"geometry", "shader", "background"}
Keys == {"LEFT", "RIGHT", "ESCAPE", "SPACE"}
KeyActions == {"PRESS", "RELEASE", "REPEAT"}
Events == [key : Keys, action : KeyActions]

VARIABLES
    variant,            \* which program is running
    pc,                 \* position of main()
    WindowSceneDisplay, \* the global scene cursor (unsigned short)
    shouldClose,        \* the window's should-close flag
    log,                \* values printed by the key callback, in order
    diag,               \* diagnostics printed by main()/getWindowObject()
    pending,            \* number of key events glfwPollEvents still has to take up
    current,            \* <<e>> while the callback is called with event e, else <<>>
    delivered,          \* number of key events taken up by glfwPollEvents so far
    exitCode,           \* <<>> while running, <<c>> once main returned c
    iterSteps,          \* steps executed by the latest loop iteration
    presses,            \* history: [key, before] of every dispatched Press
    figure,             \* the table `figure` of main(): see NoTable, getFiguresShapes
    gl,                 \* state of the rendering backend: see GlInit
    frame,              \* cursor reads, draw call and deletes of the latest iteration
    faults              \* undefined or erroneous operations executed so far

\* The variables added for the figure table and the rendering backend.
glVars == <<figure, gl, frame, faults>>

vars == <<variant, pc, WindowSceneDisplay, shouldClose, log, diag, pending,
          current, delivered, exitCode, iterSteps, presses, figure, gl, frame,
          faults>>

\* ---------------------------------------------------------------- helpers
SeqOfAtMostOne(S) == {<<>>} \cup {<<x>> : x \in S}
Min(a, b) == IF a < b THEN a ELSE b
Max(a, b) == IF a > b THEN a ELSE b

\* ------------------------------------------------------------ key callback
\* Variants of keyCallbackListener with one slip each, used to show that the
\* properties below depend on the callback's code.
\* Left decrements without the `> 0` test.
keyCallbackListener_NoLowerGuard(s, close, lg, key, action) ==
    IF action = "PRESS"
    THEN LET s2 == CASE key = "LEFT"  -> (s - 1) % UShortMod
                      [] key = "RIGHT" -> IF s < 2 THEN (s + 1) % UShortMod ELSE s
                      [] OTHER         -> s
             c2 == IF key = "ESCAPE" THEN TRUE ELSE close
         IN  [cursor |-> s2, close |-> c2, log |-> Append(lg, s2)]
    ELSE [cursor |-> s, close |-> close, log |-> lg]

\* Right tests `<= 2` instead of `< 2`.
keyCallbackListener_UpperOffByOne(s, close, lg, key, action) ==
    IF action = "PRESS"
    THEN LET s2 == CASE key = "LEFT"  -> IF s > 0 THEN (s - 1) % UShortMod ELSE s
                      [] key = "RIGHT" -> IF s <= 2 THEN (s + 1) % UShortMod ELSE s
                      [] OTHER         -> s
             c2 == IF key = "ESCAPE" THEN TRUE ELSE close
         IN  [cursor |-> s2, close |-> c2, log |-> Append(lg, s2)]
    ELSE [cursor |-> s, close |-> close, log |-> lg]

\* Left cycles to the last scene at 0 instead of staying.
keyCallbackListener_LeftCycles(s, close, lg, key, action) ==
    IF action = "PRESS"
    THEN LET s2 == CASE key = "LEFT"  -> IF s > 0 THEN (s - 1) % UShortMod ELSE 2
                      [] key = "RIGHT" -> IF s < 2 THEN (s + 1) % UShortMod ELSE s
                      [] OTHER         -> s
             c2 == IF key = "ESCAPE" THEN TRUE ELSE close
         IN  [cursor |-> s2, close |-> c2, log |-> Append(lg, s2)]
    ELSE [cursor |-> s, close |-> close, log |-> lg]

\* The close request is bound to another key than Escape.
keyCallbackListener_QuitOtherKey(s, close, lg, key, action) ==
    IF action = "PRESS"
    THEN LET s2 == CASE key = "LEFT"  -> IF s > 0 THEN (s - 1) % UShortMod ELSE s
                      [] key = "RIGHT" -> IF s < 2 THEN (s + 1) % UShortMod ELSE s
                      [] OTHER         -> s
             c2 == IF key = "SPACE" THEN TRUE ELSE close
         IN  [cursor |-> s2, close |-> c2, log |-> Append(lg, s2)]
    ELSE [cursor |-> s, close |-> close, log |-> lg]

\* The action test is `!= GLFW_RELEASE`, so Repeat events drive transitions.
keyCallbackListener_RepeatDrives(s, close, lg, key, action) ==
    IF action # "RELEASE"
    THEN LET s2 == CASE key = "LEFT"  -> IF s > 0 THEN (s - 1) % UShortMod ELSE s
                      [] key = "RIGHT" -> IF s < 2 THEN (s + 1) % UShortMod ELSE s
                      [] OTHER         -> s
             c2 == IF key = "ESCAPE" THEN TRUE ELSE close
         IN  [cursor |-> s2, close |-> c2, log |-> Append(lg, s2)]
    ELSE [cursor |-> s, close |-> close, log |-> lg]

\* Left tests `> 1` instead of `> 0`.
keyCallbackListener_LowerOffByOne(s, close, lg, key, action) ==
    IF action = "PRESS"
    THEN LET s2 == CASE key = "LEFT"  -> IF s > 1 THEN (s - 1) % UShortMod ELSE s
                      [] key = "RIGHT" -> IF s < 2 THEN (s + 1) % UShortMod ELSE s
                      [] OTHER         -> s
             c2 == IF key = "ESCAPE" THEN TRUE ELSE close
         IN  [cursor |-> s2, close |-> c2, log |-> Append(lg, s2)]
    ELSE [cursor |-> s, close |-> close, log |-> lg]

\* The `break` of the Left case is missing: Left falls through into Right.
keyCallbackListener_LeftFallsThrough(s, close, lg, key, action) ==
    IF action = "PRESS"
    THEN LET s1 == IF key = "LEFT" /\ s > 0 THEN (s - 1) % UShortMod ELSE s
             s2 == IF key \in {"LEFT", "RIGHT"} /\ s1 < 2
                   THEN (s1 + 1) % UShortMod ELSE s1
             c2 == IF key = "ESCAPE" THEN TRUE ELSE close
         IN  [cursor |-> s2, close |-> c2, log |-> Append(lg, s2)]
    ELSE [cursor |-> s, close |-> close, log |-> lg]

\* The line is printed inside the two `if`s, so only when the cursor moves.
keyCallbackListener_LogsOnlyChanges(s, close, lg, key, action) ==
    IF action = "PRESS"
    THEN LET s2 == CASE key = "LEFT"  -> IF s > 0 THEN (s - 1) % UShortMod ELSE s
                      [] key = "RIGHT" -> IF s < 2 THEN (s + 1) % UShortMod ELSE s
                      [] OTHER         -> s
             c2 == IF key = "ESCAPE" THEN TRUE ELSE close
         IN  [cursor |-> s2, close |-> c2,
              log |-> IF s2 # s THEN Append(lg, s2) ELSE lg]
    ELSE [cursor |-> s, close |-> close, log |-> lg]

\* Escape also puts the cursor back to 0.
keyCallbackListener_EscapeResets(s, close, lg, key, action) ==
    IF action = "PRESS"
    THEN LET s2 == CASE key = "LEFT"   -> IF s > 0 THEN (s - 1) % UShortMod ELSE s
                      [] key = "RIGHT"  -> IF s < 2 THEN (s + 1) % UShortMod ELSE s
                      [] key = "ESCAPE" -> 0
                      [] OTHER          -> s
             c2 == IF key = "ESCAPE" THEN TRUE ELSE close
         IN  [cursor |-> s2, close |-> c2, log |-> Append(lg, s2)]
    ELSE [cursor |-> s, close |-> close, log |-> lg]

\* keyCallbackListener of src/PROJECT1/main.cpp.  s = WindowSceneDisplay,
\* close = the should-close flag, lg = the lines printed so far.
keyCallbackListener(s, close, lg, key, action) ==
    IF action = "PRESS"
    THEN LET s2 == CASE key = "LEFT"  -> IF s > 0 THEN (s - 1) % UShortMod ELSE s
                      [] key = "RIGHT" -> IF s < 2 THEN (s + 1) % UShortMod ELSE s
                      [] OTHER         -> s
             c2 == IF key = "ESCAPE" THEN TRUE ELSE close
         IN  [cursor |-> s2, close |-> c2, log |-> Append(lg, s2)]
    ELSE [cursor |-> s, close |-> close, log |-> lg]

\* keyCallbackListener of src/unnamed/part_000.
keyCallbackListener_part000(s, close, lg, key, action) ==
    IF action = "PRESS"
    THEN LET s2 == CASE key = "LEFT"  -> IF s > 0 THEN (s - 1) % UShortMod ELSE s
                      [] key = "RIGHT" -> IF s < 2 THEN (s + 1) % UShortMod ELSE s
                      [] OTHER         -> s
             c2 == IF key = "ESCAPE" THEN TRUE ELSE close
         IN  [cursor |-> s2, close |-> c2, log |-> Append(lg, s2)]
    ELSE [cursor |-> s, close |-> close, log |-> lg]

\* The callback of part_001 with Right incrementing without the `< 2` test.
keyCallbackListener_part001_NoUpperGuard(s, close, lg, key, action) ==
    IF action = "PRESS"
    THEN LET s2 == CASE key = "LEFT"  -> IF s > 0 THEN (s - 1) % UShortMod ELSE s
                      [] key = "RIGHT" -> (s + 1) % UShortMod
                      [] OTHER         -> s
             c2 == IF key = "ESCAPE" THEN TRUE ELSE close
         IN  [cursor |-> s2, close |-> c2, log |-> Append(lg, s2)]
    ELSE [cursor |-> s, close |-> close, log |-> lg]

\* keyCallbackListener of src/unnamed/part_001.
keyCallbackListener_part001(s, close, lg, key, action) ==
    IF action = "PRESS"
    THEN LET s2 == CASE key = "LEFT"  -> IF s > 0 THEN (s - 1) % UShortMod ELSE s
                      [] key = "RIGHT" -> IF s < 2 THEN (s + 1) % UShortMod ELSE s
                      [] OTHER         -> s
             c2 == IF key = "ESCAPE" THEN TRUE ELSE close
         IN  [cursor |-> s2, close |-> c2, log |-> Append(lg, s2)]
    ELSE [cursor |-> s, close |-> close, log |-> lg]

\* The callback registered by glfwSetKeyCallback in the running program.
KeyCallback(v, s, close, lg, key, action) ==
    CASE v = "geometry"   -> keyCallbackListener(s, close, lg, key, action)
      [] v = "shader"     -> keyCallbackListener_part000(s, close, lg, key, action)
      [] v = "background" -> keyCallbackListener_part001(s, close, lg, key, action)

\* ------------------------------------------------------------- render loop
\* The body with glfwPollEvents moved to the top of the loop.
BodyOrder_PollFirst(v) ==
    IF v = "geometry"
    THEN <<"poll", "setup", "clear", "draw", "swap", "release">>
    ELSE <<"poll", "clear", "swap">>

\* The body with glfwPollEvents moved between the clear and the draw.
BodyOrder_PollMidFrame(v) ==
    IF v = "geometry"
    THEN <<"setup", "clear", "poll", "draw", "swap", "release">>
    ELSE <<"clear", "poll", "swap">>

\* Statements of the while body, in program order.
BodyOrder(v) ==
    IF v = "geometry"
    THEN <<"setup", "clear", "draw", "swap", "poll", "release">>
    ELSE <<"clear", "swap", "poll">>

\* The loop written as while (true): the flag is never tested.
LoopContinues_Always(close) == TRUE

\* while (!glfwWindowShouldClose(window))
LoopContinues(close) == ~close

\* Position of main() after the body statement `step`.
AfterStep(v, step) ==
    LET order == BodyOrder(v)
        i == CHOOSE k \in 1..Len(order) : order[k] = step
    IN  IF i < Len(order) THEN order[i + 1] ELSE "loop"

\* ------------------------------------------------- figures and GL objects
\* An object name is <<kind, i>>: the vertex shader, fragment shader, vertex
\* array or buffer made for figures[i], or the shader program of main().
Zero == <<"zero", 0>>
\* A value that names no object: what uninitialised memory may hold.
Garbage == <<"garbage", 0>>
Program == <<"prog", 0>>
ShaderKinds == {"vs", "fs"}
ArrayKinds == {"vao", "vbo"}

\* `figure` before getFiguresShapes has returned a table and after free().
NoTable == [alloc |-> "none", arg |-> 0, entries |-> <<>>]

\* The rendering backend right after the window and its context were made:
\* no object exists, the viewport is the window's size.
GlInit ==
    [live |-> {}, attached |-> {}, flagged |-> {}, lostShaders |-> 0,
     lostArrays |-> 0, frames |-> 0, viewport |-> <<800, 600>>]

FrameInit == [reads |-> <<>>, draw |-> <<>>, deleted |-> <<>>]

\* getFiguresShapes(figure, coordFactor) of main.cpp when malloc succeeds:
\* all three entries are assigned (vertices, two new shaders, fragment
\* source), every VBO and VAO is set to 0, then a vertex array and a buffer
\* are generated for figures[figure] only.  coordFactor is not used.
getFiguresShapes(figureArg, coordFactor) ==
    [alloc   |-> "ok",
     arg     |-> figureArg,
     entries |-> [i \in 1..3 |->
                    [init           |-> TRUE,
                     floats         |-> FigureFloats[i],
                     vertexShader   |-> <<"vs", i - 1>>,
                     fragmentShader |-> <<"fs", i - 1>>,
                     VAO            |-> IF i - 1 = figureArg
                                        THEN <<"vao", i - 1>> ELSE Zero,
                     VBO            |-> IF i - 1 = figureArg
                                        THEN <<"vbo", i - 1>> ELSE Zero,
                     source         |-> FragmentSources[i]]]]

\* getFiguresShapes() of part_000 when malloc succeeds: room for three
\* figures, only figures[0] is assigned (9 floats, two new shaders, one
\* buffer); figures[1] and figures[2] stay as malloc left them.
getFiguresShapes_part000 ==
    [alloc   |-> "ok",
     arg     |-> 0,
     entries |-> [i \in 1..3 |->
                    IF i = 1
                    THEN [init           |-> TRUE,
                          floats         |-> 9,
                          vertexShader   |-> <<"vs", 0>>,
                          fragmentShader |-> <<"fs", 0>>,
                          VAO            |-> Zero,
                          VBO            |-> <<"vbo", 0>>,
                          source         |-> FragmentSources[1]]
                    ELSE [init           |-> FALSE,
                          floats         |-> 0,
                          vertexShader   |-> Garbage,
                          fragmentShader |-> Garbage,
                          VAO            |-> Garbage,
                          VBO            |-> Garbage,
                          source         |-> <<>>]]]

\* The objects a call of getFiguresShapes created: glCreateShader twice per
\* assigned entry, glGenVertexArrays / glGenBuffers where a name was stored.
CreatedBy(tbl) ==
    UNION {{tbl.entries[i].vertexShader, tbl.entries[i].fragmentShader,
            tbl.entries[i].VAO, tbl.entries[i].VBO} :
           i \in {j \in DOMAIN tbl.entries : tbl.entries[j].init}} \ {Zero}

\* figure[idx] is inside an allocated table and was assigned.
EntryInit(tbl, idx) ==
    /\ tbl.alloc = "ok"
    /\ idx + 1 \in DOMAIN tbl.entries
    /\ tbl.entries[idx + 1].init

\* The values a read of figure[idx].field may give: the stored name when
\* the entry was assigned, otherwise whatever the memory holds (0, a value
\* naming nothing, or by chance the name of an existing object).
ReadHandle(tbl, idx, field, names) ==
    IF EntryInit(tbl, idx)
    THEN {tbl.entries[idx + 1][field]}
    ELSE {Zero, Garbage} \cup names

\* glCreateProgram, glAttachShader x2, glLinkProgram.
LinkProgram(g, vs, fs) ==
    [g EXCEPT !.live = @ \cup {Program},
              !.attached = {n \in {vs, fs} : n \in g.live /\ n[1] \in ShaderKinds}]

\* glDeleteShader: a shader attached to a program is only flagged for
\* deletion; 0 is ignored and any other value is an error without effect.
glDeleteShader(g, name) ==
    IF name \in g.live /\ name[1] \in ShaderKinds
    THEN IF name \in g.attached
         THEN [g EXCEPT !.flagged = @ \cup {name}]
         ELSE [g EXCEPT !.live = @ \ {name}]
    ELSE g

\* glDeleteProgram: the program goes, its shaders are detached and those
\* flagged for deletion go with it.
glDeleteProgram(g, name) ==
    IF name \in g.live /\ name[1] = "prog"
    THEN [g EXCEPT !.live = (@ \ {name}) \ g.flagged,
                   !.attached = {},
                   !.flagged = {}]
    ELSE g

\* glDeleteVertexArrays(1, &name): 0 and unused names are silently ignored.
glDeleteVertexArrays(g, name) ==
    IF name \in g.live /\ name[1] = "vao"
    THEN [g EXCEPT !.live = @ \ {name}]
    ELSE g

\* glDeleteBuffers(1, &name): 0 and unused names are silently ignored.
glDeleteBuffers(g, name) ==
    IF name \in g.live /\ name[1] = "vbo"
    THEN [g EXCEPT !.live = @ \ {name}]
    ELSE g

\* free(figure): the table was the only holder of the names of the objects
\* still alive, which stay in the backend and can no longer be deleted.
freeFigure(g) ==
    [g EXCEPT !.lostShaders = @ + Cardinality({n \in g.live : n[1] \in ShaderKinds}),
              !.lostArrays = @ + Cardinality({n \in g.live : n[1] \in ArrayKinds}),
              !.live = {n \in g.live : n[1] \notin ShaderKinds \cup ArrayKinds}]

\* glDrawArrays(GL_TRIANGLES, 0, 3 * (WindowSceneDisplay + 2)).
DrawCount_OneMore(c) == 3 * (c + 2)

\* The count given to glDrawArrays(GL_TRIANGLES, 0, 3 * (WindowSceneDisplay + 1)).
DrawCount(c) == 3 * (c + 1)

\* Number of live objects of the given kinds, counting those whose names
\* were lost.
LiveShaders == Cardinality({n \in gl.live : n[1] \in ShaderKinds}) + gl.lostShaders
LiveArrays == Cardinality({n \in gl.live : n[1] \in ArrayKinds}) + gl.lostArrays

Init ==
    /\ variant \in Variants
    /\ pc = "init"
    /\ WindowSceneDisplay = 0
    /\ shouldClose = FALSE
    /\ log = <<>>
    /\ diag = <<>>
    /\ pending = 0
    /\ current = <<>>
    /\ delivered = 0
    /\ exitCode = <<>>
    /\ iterSteps = <<>>
    /\ presses = <<>>
    /\ figure = NoTable
    /\ gl = GlInit
    /\ frame = FrameInit
    /\ faults = {}

\* initializeGlfw, getWindowObject and glfwSetKeyCallback all succeed.  The
\* shader variant also builds its table and its program here, once:
\* getFiguresShapes(), the VBO print, configureShader x2 on
\* figure[WindowSceneDisplay], glCreateProgram, attach x2, link, use.
StartupOk ==
    /\ pc = "init"
    /\ pc' = "loop"
    /\ IF variant = "shader"
       THEN LET c == WindowSceneDisplay
                tbl == getFiguresShapes_part000
                g1 == [gl EXCEPT !.live = @ \cup CreatedBy(tbl)]
            IN  \E vs \in ReadHandle(tbl, c, "vertexShader", g1.live),
                   fs \in ReadHandle(tbl, c, "fragmentShader", g1.live) :
                   /\ figure' = tbl
                   /\ gl' = LinkProgram(g1, vs, fs)
                   /\ frame' = [frame EXCEPT
                                  !.reads = Append(@, [step |-> "startup", idx |-> c])]
                   /\ diag' = Append(diag, "VBO ID")
                   /\ faults' = faults \cup
                                (IF EntryInit(tbl, c) THEN {} ELSE {"uninit_entry_read"})
       ELSE UNCHANGED <<diag, glVars>>
    /\ UNCHANGED <<variant, WindowSceneDisplay, shouldClose, log, pending,
                   current, delivered, exitCode, iterSteps, presses>>

\* getWindowObject returns NULL: glfwCreateWindow failed or the GL loader
\* failed.  The geometry and background variants test the window at once,
\* print a diagnostic and return -1.  The shader variant first calls
\* getFiguresShapes (glCreateShader, glGenBuffers, glBindBuffer through
\* function pointers that were never loaded) and reads figure[0].VBO: the
\* process either dies there or goes on to the test and returns -1.
StartupFailed ==
    /\ pc = "init"
    /\ \E cause \in {"Failed to create GLFW window", "Failed to initialize GLAD"} :
          IF variant = "shader"
          THEN /\ faults' = faults \cup {"gl_call_without_window"}
               /\ figure' = getFiguresShapes_part000
               /\ \/ /\ pc' = "done"
                     /\ diag' = <<cause, "VBO ID", "Error creating window object">>
                     /\ exitCode' = <<-1>>
                  \/ /\ pc' = "crashed"
                     /\ diag' = <<cause>>
                     /\ exitCode' = exitCode
          ELSE /\ pc' = "done"
               /\ diag' = <<cause, "Error creating window object">>
               /\ exitCode' = <<-1>>
               /\ UNCHANGED <<figure, faults>>
    /\ UNCHANGED <<variant, WindowSceneDisplay, shouldClose, log, pending,
                   current, delivered, iterSteps, presses, gl, frame>>

\* Shader variant: the window is made but malloc in getFiguresShapes returns
\* NULL; the function prints and returns NULL, and main reads figure[0].VBO
\* through the NULL pointer.
StartupAllocFail ==
    /\ pc = "init"
    /\ variant = "shader"
    /\ pc' \in {"crashed", "undefined"}
    /\ diag' = Append(diag, "Error de asignacion de memoria")
    /\ figure' = [NoTable EXCEPT !.alloc = "null"]
    /\ faults' = faults \cup {"null_table_indexed"}
    /\ UNCHANGED <<variant, WindowSceneDisplay, shouldClose, log, pending,
                   current, delivered, exitCode, iterSteps, presses, gl, frame>>

\* Evaluation of the while condition.
LoopCheck ==
    /\ pc = "loop"
    /\ IF LoopContinues(shouldClose)
       THEN /\ pc' = BodyOrder(variant)[1]
            /\ iterSteps' = <<>>
            /\ frame' = FrameInit
       ELSE /\ pc' = "shutdown"
            /\ iterSteps' = iterSteps
            /\ frame' = frame
    /\ UNCHANGED <<variant, WindowSceneDisplay, shouldClose, log, diag, pending,
                   current, delivered, exitCode, presses, figure, gl, faults>>

\* getFiguresShapes(WindowSceneDisplay, WindowSceneDisplay + 1),
\* configureShader x2, glCreateProgram, attach x2, link, glDeleteShader x2,
\* all on figure[WindowSceneDisplay]: the cursor is read, not written.
SetupFigure ==
    /\ pc = "setup"
    /\ gl.frames < MaxFrames
    /\ pc' = AfterStep(variant, "setup")
    /\ iterSteps' = Append(iterSteps, "setup")
    /\ LET c == WindowSceneDisplay
           tbl == getFiguresShapes(c, c + 1)
           g1 == [gl EXCEPT !.live = @ \cup CreatedBy(tbl), !.frames = @ + 1]
       IN  \E vs \in ReadHandle(tbl, c, "vertexShader", g1.live),
              fs \in ReadHandle(tbl, c, "fragmentShader", g1.live) :
              /\ figure' = tbl
              /\ gl' = glDeleteShader(glDeleteShader(LinkProgram(g1, vs, fs), vs), fs)
              /\ frame' = [frame EXCEPT
                             !.reads = Append(@, [step |-> "setup", idx |-> c]),
                             !.deleted = @ \o <<vs, fs>>]
              /\ faults' = faults \cup
                           (IF EntryInit(tbl, c) THEN {} ELSE {"uninit_entry_read"})
    /\ UNCHANGED <<variant, WindowSceneDisplay, shouldClose, log, diag, pending,
                   current, delivered, exitCode, presses>>

\* malloc in getFiguresShapes returns NULL: the function prints and returns
\* NULL, and main, which does not test the result, reads
\* figure[WindowSceneDisplay].vertexShader through the NULL pointer.
SetupFigureAllocFail ==
    /\ pc = "setup"
    /\ pc' \in {"crashed", "undefined"}
    /\ diag' = Append(diag, "Error de asignacion de memoria")
    /\ iterSteps' = Append(iterSteps, "setup")
    /\ figure' = [NoTable EXCEPT !.alloc = "null"]
    /\ frame' = [frame EXCEPT
                   !.reads = Append(@, [step |-> "setup", idx |-> WindowSceneDisplay])]
    /\ faults' = faults \cup {"null_table_indexed"}
    /\ UNCHANGED <<variant, WindowSceneDisplay, shouldClose, log, pending,
                   current, delivered, exitCode, presses, gl>>

\* glClearColor(SCENE_BACKGROUND[WindowSceneDisplay]...), glClear.
ClearScreen ==
    /\ pc = "clear"
    /\ pc' = AfterStep(variant, "clear")
    /\ iterSteps' = Append(iterSteps, "clear")
    /\ frame' = [frame EXCEPT
                   !.reads = Append(@, [step |-> "clear", idx |-> WindowSceneDisplay])]
    /\ UNCHANGED <<variant, WindowSceneDisplay, shouldClose, log, diag, pending,
                   current, delivered, exitCode, presses, figure, gl, faults>>

\* glUseProgram, glBindVertexArray(figure[WindowSceneDisplay].VAO),
\* glDrawArrays(GL_TRIANGLES, 0, 3 * (WindowSceneDisplay + 1)).
DrawFigure ==
    /\ pc = "draw"
    /\ pc' = AfterStep(variant, "draw")
    /\ iterSteps' = Append(iterSteps, "draw")
    /\ LET c == WindowSceneDisplay
       IN  \E vao \in ReadHandle(figure, c, "VAO", gl.live) :
              /\ frame' = [frame EXCEPT
                             !.reads = Append(@, [step |-> "draw", idx |-> c]),
                             !.draw = <<[vao |-> vao, count |-> DrawCount(c)]>>]
              /\ faults' = faults \cup
                           (IF EntryInit(figure, c) THEN {} ELSE {"uninit_entry_read"})
    /\ UNCHANGED <<variant, WindowSceneDisplay, shouldClose, log, diag, pending,
                   current, delivered, exitCode, presses, figure, gl>>

\* glfwSwapBuffers.
SwapBuffers ==
    /\ pc = "swap"
    /\ pc' = AfterStep(variant, "swap")
    /\ iterSteps' = Append(iterSteps, "swap")
    /\ UNCHANGED <<variant, WindowSceneDisplay, shouldClose, log, diag, pending,
                   current, delivered, exitCode, presses, glVars>>

\* glfwPollEvents is entered: it finds some number of events pending.
PollEventsBegin ==
    /\ pc = "poll"
    /\ \E n \in 0..MaxPending :
          /\ delivered + n <= MaxEvents
          /\ pending' = n
    /\ pc' = "dispatch"
    /\ iterSteps' = Append(iterSteps, "poll")
    /\ UNCHANGED <<variant, WindowSceneDisplay, shouldClose, log, diag,
                   current, delivered, exitCode, presses, glVars>>

\* glfwPollEvents takes up the next pending event, any key with any action,
\* and calls the key callback with it.
TakeEvent ==
    /\ pc = "dispatch"
    /\ pending > 0
    /\ \E e \in Events : current' = <<e>>
    /\ pending' = pending - 1
    /\ delivered' = delivered + 1
    /\ pc' = "callback"
    /\ UNCHANGED <<variant, WindowSceneDisplay, shouldClose, log, diag,
                   exitCode, iterSteps, presses, glVars>>

\* The key callback runs to completion on the event it was called with.
RunKeyCallback ==
    /\ pc = "callback"
    /\ LET e == current[1]
           r == KeyCallback(variant, WindowSceneDisplay, shouldClose, log,
                            e.key, e.action)
       IN  /\ WindowSceneDisplay' = r.cursor
           /\ shouldClose' = r.close
           /\ log' = r.log
           /\ presses' = IF e.action = "PRESS"
                         THEN Append(presses, [key |-> e.key,
                                               before |-> WindowSceneDisplay])
                         ELSE presses
    /\ current' = <<>>
    /\ pc' = "dispatch"
    /\ UNCHANGED <<variant, diag, pending, delivered, exitCode, iterSteps,
                   glVars>>

\* The next pending event is a change of the framebuffer size: glfwPollEvents
\* calls framebuffer_size_callback, which runs glViewport(0, 0, width, height).
FramebufferResize ==
    /\ pc = "dispatch"
    /\ pending > 0
    /\ pending' = pending - 1
    /\ \E size \in ViewportSizes : gl' = [gl EXCEPT !.viewport = size]
    /\ UNCHANGED <<variant, pc, WindowSceneDisplay, shouldClose, log, diag,
                   current, delivered, exitCode, iterSteps, presses, figure,
                   frame, faults>>

\* glfwPollEvents returns once every pending event has been dispatched.
PollEventsReturn ==
    /\ pc = "dispatch"
    /\ pending = 0
    /\ pc' = AfterStep(variant, "poll")
    /\ UNCHANGED <<variant, WindowSceneDisplay, shouldClose, log, diag, pending,
                   current, delivered, exitCode, iterSteps, presses, glVars>>

\* glDeleteProgram(shaderProgram),
\* glDeleteVertexArrays(1, &figure[WindowSceneDisplay].VAO),
\* glDeleteBuffers(1, &figure[WindowSceneDisplay].VBO), free(figure).
ReleaseFrame ==
    /\ pc = "release"
    /\ pc' = AfterStep(variant, "release")
    /\ iterSteps' = Append(iterSteps, "release")
    /\ LET c == WindowSceneDisplay
       IN  \E vao \in ReadHandle(figure, c, "VAO", gl.live),
              vbo \in ReadHandle(figure, c, "VBO", gl.live) :
              /\ gl' = freeFigure(glDeleteBuffers(
                           glDeleteVertexArrays(glDeleteProgram(gl, Program), vao),
                           vbo))
              /\ frame' = [frame EXCEPT
                             !.reads = Append(@, [step |-> "release", idx |-> c]),
                             !.deleted = @ \o <<Program, vao, vbo>>]
              /\ faults' = faults \cup
                           (IF EntryInit(figure, c) THEN {} ELSE {"uninit_entry_read"})
    /\ figure' = NoTable
    /\ UNCHANGED <<variant, WindowSceneDisplay, shouldClose, log, diag, pending,
                   current, delivered, exitCode, presses>>

\* Code after the loop.  Shader variant:
\* glDeleteShader(figure[WindowSceneDisplay].vertexShader),
\* glDeleteShader(figure[WindowSceneDisplay].fragmentShader), free(figure).
\* Every variant: glfwTerminate, return 0.
Shutdown ==
    /\ pc = "shutdown"
    /\ pc' = "done"
    /\ exitCode' = <<0>>
    /\ IF variant = "shader"
       THEN LET c == WindowSceneDisplay
            IN  \E vs \in ReadHandle(figure, c, "vertexShader", gl.live),
                   fs \in ReadHandle(figure, c, "fragmentShader", gl.live) :
                   /\ gl' = glDeleteShader(glDeleteShader(gl, vs), fs)
                   /\ frame' = [frame EXCEPT
                                  !.reads = Append(@, [step |-> "shutdown", idx |-> c]),
                                  !.deleted = @ \o <<vs, fs>>]
                   /\ faults' = faults \cup
                                (IF EntryInit(figure, c) THEN {}
                                 ELSE {"uninit_entry_read"})
                   /\ figure' = NoTable
       ELSE UNCHANGED glVars
    /\ UNCHANGED <<variant, WindowSceneDisplay, shouldClose, log, diag, pending,
                   current, delivered, iterSteps, presses>>

Next ==
    \/ StartupOk
    \/ StartupFailed
    \/ StartupAllocFail
    \/ LoopCheck
    \/ SetupFigure
    \/ SetupFigureAllocFail
    \/ ClearScreen
    \/ DrawFigure
    \/ SwapBuffers
    \/ PollEventsBegin
    \/ TakeEvent
    \/ RunKeyCallback
    \/ FramebufferResize
    \/ PollEventsReturn
    \/ ReleaseFrame
    \/ Shutdown

Spec == Init /\ [][Next]_vars

\* main() is the only thread and never blocks for ever: every step it can
\* take is eventually taken.
FairSpec == Spec /\ WF_vars(Next)

Handles ==
    {Zero, Garbage, Program} \cup ((ShaderKinds \cup ArrayKinds) \X (0..2))

TypeOK ==
    /\ variant \in Variants
    /\ pc \in {"init", "loop", "setup", "clear", "draw", "swap", "poll",
               "dispatch", "callback", "release", "shutdown", "done",
               "crashed", "undefined"}
    /\ WindowSceneDisplay \in 0..(UShortMod - 1)
    /\ shouldClose \in BOOLEAN
    /\ delivered \in 0..MaxEvents
    /\ pending \in 0..MaxPending
    /\ current \in SeqOfAtMostOne(Events)
    /\ figure.alloc \in {"none", "ok", "null"}
    /\ gl.live \subseteq Handles
    /\ gl.flagged \subseteq gl.live
    /\ gl.attached \subseteq gl.live
    /\ gl.frames \in 0..MaxFrames
    /\ gl.viewport \in ViewportSizes
    /\ faults \subseteq {"gl_call_without_window", "null_table_indexed",
                         "uninit_entry_read"}

\* ------------------------------------------------------------- properties
\* The key callback is about to run on key k with action a.
Dispatching(k, a) ==
    /\ pc = "callback"
    /\ current = <<[key |-> k, action |-> a]>>

\* Number of dispatched events that were not a Press.
IgnoredCount == delivered - Len(current) - Len(presses)

LastPress == presses[Len(presses)]

\* C1: in every reachable state the scene cursor is an integer in [0, 2]
\* (never 65535 from an unsigned wrap), and it is 0 before the loop starts;
\* so every index taken from it is inside the 3-entry tables.
C1_CursorInRange ==
    /\ WindowSceneDisplay \in 0..2
    /\ WindowSceneDisplay + 1 \in DOMAIN SCENE_BACKGROUND
    /\ (pc = "init" => WindowSceneDisplay = 0)

\* C1 witness: Left was pressed at 0, Right was pressed at 2, and the
\* geometry program is about to index the figure table with the cursor.
C1_Witness ==
    /\ variant = "geometry"
    /\ pc = "setup"
    /\ WindowSceneDisplay = 2
    /\ \E i \in 1..Len(presses) : presses[i] = [key |-> "LEFT", before |-> 0]
    /\ \E i \in 1..Len(presses) : presses[i] = [key |-> "RIGHT", before |-> 2]

\* C2: a Right Press at cursor s leaves the cursor at min(s + 1, 2).
C2_AdvanceSaturates ==
    [][Dispatching("RIGHT", "PRESS") =>
         WindowSceneDisplay' = Min(WindowSceneDisplay + 1, 2)]_vars

\* C2 witness: Right was pressed at 2 and the cursor is still 2, after
\* two Right presses that each moved it by one.
C2_Witness ==
    /\ Len(presses) >= 3
    /\ LastPress = [key |-> "RIGHT", before |-> 2]
    /\ presses[Len(presses) - 1] = [key |-> "RIGHT", before |-> 1]
    /\ presses[Len(presses) - 2] = [key |-> "RIGHT", before |-> 0]
    /\ WindowSceneDisplay = 2

\* C3: a Left Press at cursor s leaves the cursor at max(s - 1, 0).
C3_RetreatSaturates ==
    [][Dispatching("LEFT", "PRESS") =>
         WindowSceneDisplay' = Max(WindowSceneDisplay - 1, 0)]_vars

\* C3 witness: Left was pressed at 1 and then at 0, and the cursor is 0.
C3_Witness ==
    /\ Len(presses) >= 2
    /\ LastPress = [key |-> "LEFT", before |-> 0]
    /\ presses[Len(presses) - 1] = [key |-> "LEFT", before |-> 1]
    /\ WindowSceneDisplay = 0

\* C4: an Escape Press sets the should-close flag and leaves the cursor as
\* it was.
C4_QuitKeepsCursor ==
    [][Dispatching("ESCAPE", "PRESS") =>
         /\ shouldClose'
         /\ WindowSceneDisplay' = WindowSceneDisplay]_vars

\* C4 witness: Escape was pressed at cursor 1; the flag is set and the
\* cursor is still 1.
C4_Witness ==
    /\ presses # <<>>
    /\ LastPress = [key |-> "ESCAPE", before |-> 1]
    /\ shouldClose
    /\ WindowSceneDisplay = 1

\* C5: a key event whose action is Release or Repeat, whatever its key,
\* leaves the cursor and the should-close flag unchanged and prints nothing.
C5_OnlyPressDrives ==
    [][(/\ pc = "callback"
        /\ current[1].action # "PRESS") =>
         UNCHANGED <<WindowSceneDisplay, shouldClose, log>>]_vars

\* C5 witness: two events that were not a Press have been dispatched away
\* from the boundaries and nothing was printed for them.
C5_Witness ==
    /\ IgnoredCount >= 2
    /\ WindowSceneDisplay = 1
    /\ ~shouldClose
    /\ Len(log) = Len(presses)
\* Length of the run of Presses of key k that ends the history.
TrailingRun(k) ==
    LET n == Len(presses)
        runs == {m \in 0..n : \A i \in (n - m + 1)..n : presses[i].key = k}
    IN  CHOOSE m \in runs : \A m2 \in runs : m2 <= m

\* Cursor value before the first Press of the run of length n that ends
\* the history.
RunStart(n) == presses[Len(presses) - n + 1].before

\* C6: n consecutive Retreats from s end at max(s - n, 0), so after at most
\* 2 of them the cursor is 0 and stays 0; n consecutive Advances from s end
\* at min(s + n, 2), so after at most 2 of them the cursor is 2 and stays 2.
C6_RepeatedConverges ==
    LET l == TrailingRun("LEFT")
        r == TrailingRun("RIGHT")
    IN  /\ l >= 1 => WindowSceneDisplay = Max(RunStart(l) - l, 0)
        /\ l >= 2 => WindowSceneDisplay = 0
        /\ r >= 1 => WindowSceneDisplay = Min(RunStart(r) + r, 2)
        /\ r >= 2 => WindowSceneDisplay = 2

\* C6 witness: three consecutive Retreats that started at 2 ended at 0.
C6_Witness ==
    /\ TrailingRun("LEFT") = 3
    /\ RunStart(3) = 2
    /\ WindowSceneDisplay = 0

\* C7: Advance at s followed immediately by Retreat returns to s when
\* 0 < s < 2; at s = 2 the pair ends at 1.
C7_RoundTrip ==
    LET n == Len(presses)
    IN  (n >= 2 /\ presses[n - 1].key = "RIGHT" /\ presses[n].key = "LEFT") =>
           LET s == presses[n - 1].before
           IN  /\ (0 < s /\ s < 2) => WindowSceneDisplay = s
               /\ s = 2 => WindowSceneDisplay = 1

\* C7 witness: Right at 1 then Left brought the cursor back to 1.
C7_Witness ==
    /\ Len(presses) >= 2
    /\ presses[Len(presses) - 1] = [key |-> "RIGHT", before |-> 1]
    /\ LastPress = [key |-> "LEFT", before |-> 2]
    /\ WindowSceneDisplay = 1

\* C8: every Left or Right Press, the saturated ones included, appends
\* exactly one line carrying the cursor value after the transition; printing
\* changes neither the transition's result nor the should-close flag.
C8_OneNotification ==
    [][(Dispatching("LEFT", "PRESS") \/ Dispatching("RIGHT", "PRESS")) =>
         /\ log' = Append(log, WindowSceneDisplay')
         /\ shouldClose' = shouldClose
         /\ WindowSceneDisplay' =
               IF current[1].key = "LEFT"
               THEN Max(WindowSceneDisplay - 1, 0)
               ELSE Min(WindowSceneDisplay + 1, 2)]_vars

\* C8 witness: a Right that moved the cursor to 1 and a saturated Left at 0
\* each printed their line.
C8_Witness ==
    /\ Len(presses) >= 2
    /\ LastPress = [key |-> "RIGHT", before |-> 0]
    /\ presses[Len(presses) - 1] = [key |-> "LEFT", before |-> 0]
    /\ Len(log) = Len(presses)
    /\ log[Len(log)] = 1
    /\ log[Len(log) - 1] = 0
\* In the latest iteration, every occurrence of step b comes after an
\* occurrence of step a.
Precedes(a, b) ==
    \A j \in 1..Len(iterSteps) :
        iterSteps[j] = b => \E i \in 1..(j - 1) : iterSteps[i] = a

StepsDone == {iterSteps[i] : i \in 1..Len(iterSteps)}

\* C9 as stated: within one iteration the event poll comes before the
\* cursor reads used for drawing (figure setup, clear colour, draw call)
\* and before the buffer swap, and the drawing comes before the swap.
C9_PollThenDrawThenSwap ==
    /\ Precedes("poll", "setup")
    /\ Precedes("poll", "clear")
    /\ Precedes("poll", "draw")
    /\ Precedes("poll", "swap")
    /\ Precedes("clear", "swap")

\* C9 amended: within one iteration the cursor is read and the scene drawn
\* first, then the frame is presented, and only then the pending events are
\* polled and dispatched, all of them before the loop goes on; each step
\* runs once per iteration.
C9_DrawThenSwapThenPoll ==
    /\ Precedes("clear", "swap")
    /\ Precedes("swap", "poll")
    /\ variant = "geometry" =>
          /\ Precedes("setup", "clear")
          /\ Precedes("clear", "draw")
          /\ Precedes("draw", "swap")
          /\ Precedes("poll", "release")
    /\ \A i, j \in 1..Len(iterSteps) : iterSteps[i] = iterSteps[j] => i = j
    /\ (pc \notin {"dispatch", "callback"}) => (pending = 0 /\ current = <<>>)
    /\ (pc = "loop" /\ iterSteps # <<>>) =>
          /\ {"clear", "swap", "poll"} \subseteq StepsDone
          /\ variant = "geometry" => {"setup", "draw", "release"} \subseteq StepsDone

\* C9 witness: the geometry program finished an iteration whose poll, the
\* step after drawing and swapping, dispatched a Right Press.
C9_Witness ==
    /\ variant = "geometry"
    /\ pc = "loop"
    /\ iterSteps = <<"setup", "clear", "draw", "swap", "poll", "release">>
    /\ presses = <<[key |-> "RIGHT", before |-> 0]>>
    /\ WindowSceneDisplay = 1

\* C10: once the should-close flag is set during a poll, no step of a new
\* render pass begins; the loop is left only with the current iteration
\* complete (the per-frame release included); and main eventually passes
\* glfwTerminate and returns 0.
C10_QuitEndsLoop ==
    /\ [][shouldClose =>
            pc' \in {"dispatch", "callback", "release", "loop", "shutdown",
                     "done"}]_vars
    /\ [](pc = "shutdown" =>
            /\ shouldClose
            /\ iterSteps = IF variant = "geometry"
                           THEN <<"setup", "clear", "draw", "swap", "poll", "release">>
                           ELSE <<"clear", "swap", "poll">>)
    /\ (shouldClose ~> (pc = "done" /\ exitCode = <<0>>))

\* C10 witness: the geometry program returned 0 after Escape was pressed at
\* cursor 1, its last iteration complete.
C10_Witness ==
    /\ variant = "geometry"
    /\ pc = "done"
    /\ exitCode = <<0>>
    /\ shouldClose
    /\ \E i \in 1..Len(presses) : presses[i] = [key |-> "ESCAPE", before |-> 1]
    /\ iterSteps = <<"setup", "clear", "draw", "swap", "poll", "release">>

\* ------------------------------------------------- iterations and failures
\* C11: in the geometry variant every read of WindowSceneDisplay made by one
\* loop iteration (figure construction, shader configuration and attachment,
\* clear colour, VAO bind, draw count, and the VAO/VBO release) observes the
\* same value.
C11_OneCursorPerIteration ==
    variant = "geometry" =>
        \A i, j \in DOMAIN frame.reads : frame.reads[i].idx = frame.reads[j].idx

\* The diagnostics getWindowObject prints when it is about to return NULL.
StartupCauses == {"Failed to create GLFW window", "Failed to initialize GLAD"}

\* getWindowObject has failed in this run.
WindowFailed == Len(diag) > 0 /\ diag[1] \in StartupCauses

\* C12: when window creation or the GL loader fails, every variant logs a
\* diagnostic and exits with a non-zero status, without entering the render
\* loop and without any GL call or figure-table access before the failure is
\* detected.
C12_WindowFailureExitsCleanly ==
    WindowFailed =>
        /\ pc = "done"
        /\ Len(exitCode) = 1 /\ exitCode[1] # 0
        /\ iterSteps = <<>>
        /\ "gl_call_without_window" \notin faults
        /\ figure = NoTable

\* getFiguresShapes has printed its allocation diagnostic in this run.
AllocFailed ==
    \E i \in DOMAIN diag : diag[i] = "Error de asignacion de memoria"

\* C13: when malloc in getFiguresShapes returns NULL the process logs a
\* diagnostic and exits with a non-zero status, and the NULL table is never
\* indexed or handed to the rendering backend.
C13_AllocFailureExitsCleanly ==
    AllocFailed =>
        /\ pc = "done"
        /\ Len(exitCode) = 1 /\ exitCode[1] # 0
        /\ "null_table_indexed" \notin faults

\* C14: in every variant that has a figure table, the entry read through the
\* cursor (its shader handles, vertex data, shader source) was initialised
\* before it is read, whatever cursor value the key events have produced.
C14_EntryInitialisedBeforeRead ==
    variant \in {"geometry", "shader"} => "uninit_entry_read" \notin faults

\* C15: the registry lookup is pure: for every index i in {0,1,2} two calls
\* of getFiguresShapes with the same i return structurally identical scene
\* definitions, and the call has no side effect on program or backend state
\* (the step that performs the lookup leaves no object in the backend that
\* was not there before, the shader program of main() aside).
C15_LookupIsPure ==
    /\ [](\A i \in 0..(NumScenes - 1) :
             getFiguresShapes(i, i + 1) = getFiguresShapes(i, i + 1))
    /\ [][(pc = "setup" /\ pc' = AfterStep(variant, "setup"))
              => (gl'.live \ {Program}) \subseteq gl.live]_vars

C17_SingleWriter ==
    [][WindowSceneDisplay' # WindowSceneDisplay =>
          \/ Dispatching("RIGHT", "PRESS") /\ WindowSceneDisplay' = WindowSceneDisplay + 1
          \/ Dispatching("LEFT", "PRESS") /\ WindowSceneDisplay' = WindowSceneDisplay - 1]_vars

\* The cursor was moved once, and since then a resize, a Press of another
\* key, Quit and a whole iteration with its release have run.
C17_Witness ==
    /\ variant = "geometry"
    /\ pc = "shutdown"
    /\ WindowSceneDisplay = 1
    /\ gl.viewport = <<400, 300>>
    /\ gl.frames = 2
    /\ Len(presses) = 3
    /\ presses[1] = [key |-> "RIGHT", before |-> 0]
    /\ presses[2] = [key |-> "SPACE", before |-> 1]
    /\ presses[3] = [key |-> "ESCAPE", before |-> 1]

\* The vertex array and buffer names stored in the table by getFiguresShapes.
GeneratedArrays == {n \in CreatedBy(figure) : n[1] \in ArrayKinds}

\* C18: in the geometry variant the vertex array and the buffer generated by
\* getFiguresShapes in an iteration are exactly the names given to
\* glDeleteVertexArrays / glDeleteBuffers at the end of that iteration, so no
\* vertex array or buffer is alive when the loop condition is evaluated.
C18_ArraysFreedInIteration ==
    /\ [](variant = "geometry" /\ pc = "loop" => LiveArrays = 0)
    /\ [][(variant = "geometry" /\ pc = "release" /\ pc' = "loop") =>
              GeneratedArrays =
                  {frame'.deleted[i] : i \in (Len(frame.deleted) + 2)..Len(frame'.deleted)}]_vars

\* C19: in the geometry variant every shader object created during a loop
\* iteration is deleted before the iteration ends, so no shader is alive when
\* the loop condition is evaluated and the number of live shaders does not
\* grow with the number of frames.
C19_ShadersFreedInIteration ==
    variant = "geometry" /\ pc = "loop" => LiveShaders = 0

\* C20: in the shader variant the two shader handles deleted at shutdown are
\* exactly the two created and compiled at startup, those of figure 0,
\* whatever cursor value was reached by the time the loop exits.
C20_ShutdownDeletesStartupShaders ==
    (variant = "shader" /\ pc = "done" /\ exitCode = <<0>>) =>
        frame.deleted = << <<"vs", 0>>, <<"fs", 0>> >>

\* ------------------------------------------------ frames and the selector
\* The Scene Selector run on a history of Presses from cursor 0: Right moves
\* one up to at most 2, Left one down to at least 0, other keys do nothing.
RECURSIVE CursorAfter(_)
CursorAfter(ps) ==
    IF ps = <<>>
    THEN 0
    ELSE LET c == CursorAfter(SubSeq(ps, 1, Len(ps) - 1))
             k == ps[Len(ps)].key
         IN  CASE k = "RIGHT" -> Min(c + 1, 2)
               [] k = "LEFT"  -> Max(c - 1, 0)
               [] OTHER       -> c

\* The cursor reads made by the drawing part of the current iteration.
DrawingReads ==
    {frame.reads[i].idx :
        i \in {j \in DOMAIN frame.reads :
                  frame.reads[j].step \in {"setup", "clear", "draw"}}}

\* C21: every frame is drawn from the cursor value that results from all
\* key events delivered by the polls of earlier iterations.  When a frame is
\* about to be presented, every cursor read of its drawing gave that one
\* value (0 for the first frame, the value left by the poll of iteration k
\* for the frame of iteration k+1), and in the geometry variant the figure
\* built, the shaders linked, the vertex array bound and the draw count all
\* belong to that index.
C21_FrameShowsPolledCursor ==
    pc = "swap" =>
        LET c == CursorAfter(presses)
        IN  /\ DrawingReads = {c}
            /\ delivered = 0 => c = 0
            /\ variant = "geometry" =>
                  /\ figure.alloc = "ok"
                  /\ figure.arg = c
                  /\ gl.attached = {<<"vs", c>>, <<"fs", c>>}
                  /\ frame.draw = <<[vao |-> <<"vao", c>>, count |-> 3 * (c + 1)]>>

\* The second frame of the geometry variant is about to be presented and
\* shows scene 1, reached by a Press of Right during the first poll.
C21_Witness ==
    /\ variant = "geometry"
    /\ pc = "swap"
    /\ gl.frames = 2
    /\ presses = <<[key |-> "RIGHT", before |-> 0]>>
    /\ frame.draw = <<[vao |-> <<"vao", 1>>, count |-> 6]>>

\* Cursor and should-close flag of variant v after the Presses of history
\* ps, delivered one by one to its key callback from the initial state.
RECURSIVE SelectorAfter(_, _)
SelectorAfter(v, ps) ==
    IF ps = <<>>
    THEN [cursor |-> 0, close |-> FALSE]
    ELSE LET before == SelectorAfter(v, SubSeq(ps, 1, Len(ps) - 1))
             r == KeyCallback(v, before.cursor, before.close, <<>>,
                              ps[Len(ps)].key, "PRESS")
         IN  [cursor |-> r.cursor, close |-> r.close]

\* C22: the geometry, shader and background variants implement the same
\* Scene Selector.  Given the same event in the same state the three
\* callbacks leave the same cursor and the same should-close flag, and after
\* every event of a run the cursor and flag of the running variant are those
\* each of the three variants has after the same sequence of key events.
C22_SameSelector ==
    /\ pc = "callback" =>
          LET e == current[1]
              g == keyCallbackListener(WindowSceneDisplay, shouldClose, log,
                                       e.key, e.action)
              s == keyCallbackListener_part000(WindowSceneDisplay, shouldClose,
                                               log, e.key, e.action)
              b == keyCallbackListener_part001(WindowSceneDisplay, shouldClose,
                                               log, e.key, e.action)
          IN  /\ g.cursor = s.cursor /\ s.cursor = b.cursor
              /\ g.close = s.close /\ s.close = b.close
    /\ pc # "callback" =>
          \A v \in Variants :
              SelectorAfter(v, presses) =
                  [cursor |-> WindowSceneDisplay, close |-> shouldClose]

\* The background variant has handled Advance twice, a Retreat, an event
\* that is not a Press, and Quit.
C22_Witness ==
    /\ variant = "background"
    /\ pc = "dispatch"
    /\ Len(presses) = 4
    /\ presses[1].key = "RIGHT"
    /\ presses[2].key = "RIGHT"
    /\ presses[3].key = "LEFT"
    /\ presses[4].key = "ESCAPE"
    /\ IgnoredCount = 1
    /\ WindowSceneDisplay = 1
    /\ shouldClose

====
